---- MODULE Spec2Model ----
(***************************************************************************)
(* The order workflow of the gem store backend: the orders router          *)
(* (place, fetch, cancel), the gems router's administrative writes, and the *)
(* Gem / Order schemas.  Every handler is a sequence of awaited storage    *)
(* operations; one action of the model is one awaited operation together   *)
(* with the synchronous code that follows it up to the next await.         *)
(***************************************************************************)
EXTENDS Integers, Sequences, FiniteSets, TLC

\* ------------------------------------------------------------------ bounds
Users == {"u1", "u2"}
GemOrder == <<"g1", "g2">>
GemIds == {GemOrder[k] : k \in 1..Len(GemOrder)}
InitCatalog == {"g1"}   \* the gems on sale at the start; the others are not created yet
Reqs == {1, 2}

InitStock == 3
MaxStock == 3
MaxQty == 2
MaxLines == 2
MaxPrice == 2
MaxOrders == 2
MaxRequests == 3
MaxPlaces == 2
MaxAdminOps == 1
MaxAdvances == 4
MaxCartOps == 3
MaxCartItems == 6

\* ------------------------------------------------------------------- state
VARIABLES
    gems,        \* Gem collection: gem id -> [exists, stock, availability, price]
    orders,      \* Order collection: _id -> order header, or NoOrder
    orderItems,  \* OrderItem collection, grouped by the order _id they reference
    cartItems,   \* CartItem collection: set of [id, userId, gemId, quantity]
    req,         \* in-flight and last completed request of every connection
    validateBeforeHooks, \* whether the ODM validates `required` paths before pre('save') hooks
    cartUniqueIndex,     \* whether the CartItem collection has a unique index on (userId, gemId)
    placed,      \* history: _ids of the orders whose placement answered 201
    edited,      \* history: gems touched by an administrative write
    budget       \* what the run may still start: [requests, places, admin, advances, cart]

vars == <<gems, orders, orderItems, cartItems, req, validateBeforeHooks,
          cartUniqueIndex, placed, edited, budget>>

\* ----------------------------------------------------------------- schemas
OrderStatuses == {"pending", "confirmed", "processing", "shipped", "delivered", "cancelled"}

NoGem == [exists |-> FALSE, stock |-> 0, availability |-> FALSE, price |-> 0]
NoOrder == [orderId |-> 0, userId |-> "none", status |-> "none", total |-> 0]

OrderIds == 1..MaxOrders        \* order _id values
OrderIdStrings == 1..MaxOrders  \* values of the generated 'ORD...' identifier

Prices == 1..MaxPrice
Lines == [gemId : GemIds, quantity : 0..MaxQty, price : Prices]

RECURSIVE SeqsUpTo(_, _)
SeqsUpTo(S, n) ==
    IF n = 0 THEN {<<>>}
    ELSE LET shorter == SeqsUpTo(S, n - 1)
         IN shorter \cup {Append(s, x) : s \in {t \in shorter : Len(t) = n - 1}, x \in S}

RECURSIVE Units(_)
Units(items) == IF items = <<>> THEN 0 ELSE Head(items).quantity + Units(Tail(items))

GemRank(g) == CHOOSE k \in 1..Len(GemOrder) : GemOrder[k] = g
UserRank(u) == IF u = "u1" THEN 1 ELSE 2

\* the request bodies tried: up to MaxLines lines ordering at most MaxQty units in
\* all, listed in catalog order (a gem may be listed twice) and by rising price;
\* a line of quantity 0 is rejected whatever its price, so it is tried at one price
ItemLists ==
    {items \in SeqsUpTo(Lines, MaxLines) :
        /\ Units(items) <= MaxQty
        /\ \A k \in 1..Len(items) : items[k].quantity = 0 => items[k].price = 1
        /\ \A k \in 1..(Len(items) - 1) :
              /\ GemRank(items[k].gemId) <= GemRank(items[k + 1].gemId)
              /\ items[k].price <= items[k + 1].price}

IdleReq ==
    [kind |-> "idle", pc |-> "idle", user |-> "none", items |-> <<>>,
     orderId |-> 0, order |-> 0, status |-> "none", lines |-> <<>>, i |-> 0,
     result |-> "none", http |-> 0, gemName |-> "none",
     cause |-> "none", wrote |-> {}, overlapped |-> FALSE,
     gemId |-> "none", quantity |-> 0, cartItem |-> 0, cartQuantity |-> 0,
     gemStock |-> 0]

\* ---------------------------------------------------------------- helpers
RECURSIVE SumOver(_, _)
SumOver(items, g) ==   \* total quantity the lines of `items` hold for gem g
    IF items = <<>> THEN 0
    ELSE (IF Head(items).gemId = g THEN Head(items).quantity ELSE 0) + SumOver(Tail(items), g)

InFlight(r) == req[r].pc \notin {"idle", "done"}

\* Users are interchangeable until one of them has acted: the first request of a
\* run is taken to be u1's
FirstUser(u) == req[1].kind = "idle" => u = "u1"

\* the connection a new request arrives on: the first one with no request running
FreeSlot(r) ==
    /\ ~InFlight(r)
    /\ \A q \in Reqs : ~InFlight(q) => r <= q

ExistingOrders == {o \in OrderIds : orders[o] # NoOrder}

\* res.status(code).json({success, message}) : the handler ends and its locals go
\* (the record keeps what the request was and what it answered)
Respond(r, result, http, gemName, cause) ==
    [req[r] EXCEPT !.pc = "done", !.result = result, !.http = http,
                   !.gemName = gemName, !.cause = cause, !.lines = <<>>, !.i = 0,
                   !.status = "none",
                   !.gemId = "none", !.quantity = 0, !.cartItem = 0,
                   !.cartQuantity = 0, !.gemStock = 0,
                   !.items = IF result \in {"Success", "InsufficientStock"} THEN @ ELSE <<>>]

\* A request starts on connection r: the ones still running now overlap with it
Begin(r, fresh) ==
    [q \in Reqs |->
        IF q = r THEN [fresh EXCEPT !.overlapped = \E p \in Reqs \ {r} : InFlight(p)]
        ELSE IF InFlight(q) THEN [req[q] EXCEPT !.overlapped = TRUE]
        ELSE req[q]]

\* ------------------------------------------------- POST /api/orders (place)
\* express-validator rules of the route: items non-empty, quantity >= 1, price >= 0
ItemsValid(items) ==
    /\ Len(items) >= 1
    /\ \A k \in 1..Len(items) : items[k].quantity >= 1 /\ items[k].price >= 0

\* Gem.find({ _id: { $in: gemIds } }) : the documents whose _id is among gemIds
GemFind(gemIds) ==
    [g \in GemIds |-> IF g \in gemIds /\ gems[g].exists THEN gems[g] ELSE NoGem]

GemsLength(found) == Cardinality({g \in GemIds : found[g].exists})

ItemGemIds(items) == {items[k].gemId : k \in 1..Len(items)}

\* for (const item of items) { if (!gem.availability || gem.stock < item.quantity) ... }
\* the index of the first line that fails the check, 0 when every line passes
\* the stock check without its availability test
InsufficientAtStockOnly(items, found) ==
    LET bad == {k \in 1..Len(items) : found[items[k].gemId].stock < items[k].quantity}
    IN IF bad = {} THEN 0 ELSE CHOOSE k \in bad : \A j \in bad : k <= j

InsufficientAt(items, found) ==
    LET bad == {k \in 1..Len(items) :
                   \/ ~found[items[k].gemId].availability
                   \/ found[items[k].gemId].stock < items[k].quantity}
    IN IF bad = {} THEN 0 ELSE CHOOSE k \in bad : \A j \in bad : k <= j

\* a total taken from the catalog prices of the gems instead of the request's
RECURSIVE CalcTotalCatalog(_)
CalcTotalCatalog(items) ==
    IF items = <<>> THEN 0
    ELSE gems[Head(items).gemId].price * Head(items).quantity
           + CalcTotalCatalog(Tail(items))

\* items.reduce((sum, item) => sum + (item.price * item.quantity), 0)
RECURSIVE CalcTotal(_)
CalcTotal(items) ==
    IF items = <<>> THEN 0
    ELSE Head(items).price * Head(items).quantity + CalcTotal(Tail(items))

\* the handler up to its first await: validationResult(req)
PlaceOrderStart(r, u, items) ==
    /\ FreeSlot(r)
    /\ FirstUser(u)
    /\ budget.requests > 0
    /\ budget.places > 0
    /\ Cardinality(ExistingOrders)
         + Cardinality({q \in Reqs : req[q].kind = "place" /\ req[q].pc \in {"find", "save"}})
         < MaxOrders
    /\ LET fresh == [IdleReq EXCEPT !.kind = "place", !.user = u, !.items = items]
       IN req' = Begin(r, IF ItemsValid(items)
                          THEN [fresh EXCEPT !.pc = "find"]
                          ELSE [fresh EXCEPT !.pc = "done", !.result = "ValidationFailed",
                                             !.http = 400, !.items = <<>>])
    /\ budget' = [budget EXCEPT !.requests = @ - 1, !.places = @ - 1]
    /\ UNCHANGED <<gems, orders, orderItems, cartItems, validateBeforeHooks, cartUniqueIndex, placed,
                   edited>>

\* await Gem.find(...), then the existence check, the stock check and the total
PlaceOrderFind(r) ==
    /\ req[r].kind = "place" /\ req[r].pc = "find"
    /\ LET items == req[r].items
           found == GemFind(ItemGemIds(items))
           bad == InsufficientAt(items, found)
       IN req' = [req EXCEPT ![r] =
            IF GemsLength(found) # Len(items)
            THEN Respond(r, "GemsNotFound", 400, "none", "none")
            ELSE IF \E k \in 1..Len(items) : ~found[items[k].gemId].exists
            THEN Respond(r, "Internal", 500, "none", "typeError")
            ELSE IF bad # 0
            THEN Respond(r, "InsufficientStock", 400, items[bad].gemId, "none")
            ELSE [req[r] EXCEPT !.pc = "save"]]
    /\ UNCHANGED <<gems, orders, orderItems, cartItems, validateBeforeHooks, cartUniqueIndex, placed,
                   edited, budget>>

\* new ObjectId for the order document
NewObjectId == CHOOSE o \in OrderIds \ ExistingOrders :
                   \A p \in OrderIds \ ExistingOrders : o <= p

\* a collection without the unique index: no identifier counts as taken
OrderIdNeverTaken(oid) == FALSE

\* the unique index on orderId
OrderIdTaken(oid) == \E o \in ExistingOrders : orders[o].orderId = oid

\* 'ORD' + Date.now() + Math.random()...: an identifier no order holds yet (they
\* are interchangeable, so the first one) or, on a collision, one an order holds
GeneratedOrderIds ==
    LET free == {oid \in OrderIdStrings : ~OrderIdTaken(oid)}
    IN {oid \in OrderIdStrings : OrderIdTaken(oid) \/ \A f \in free : oid <= f}

\* new Order({userId, total, ...}) with the schema default status
NewOrder(u, total, oid) ==
    [orderId |-> oid, userId |-> u, status |-> "pending", total |-> total]

\* await order.save(): `orderId` is required by the schema and set only by the
\* pre('save') hook.  When the ODM validates before it runs the hook the save
\* rejects with a ValidationError; otherwise the hook draws an identifier
\* (time stamp plus random suffix) and the unique index rejects a repeated one.
PlaceOrderSave(r) ==
    /\ req[r].kind = "place" /\ req[r].pc = "save"
    /\ \/ /\ validateBeforeHooks
          /\ req' = [req EXCEPT ![r] = Respond(r, "Internal", 500, "none", "validation")]
          /\ UNCHANGED orders
       \/ /\ ~validateBeforeHooks
          /\ \E oid \in GeneratedOrderIds :
               IF OrderIdTaken(oid)
               THEN /\ req' = [req EXCEPT ![r] =
                                 Respond(r, "Internal", 500, "none", "duplicateKey")]
                    /\ UNCHANGED orders
               ELSE /\ orders' = [orders EXCEPT ![NewObjectId] =
                                     NewOrder(req[r].user, CalcTotal(req[r].items), oid)]
                    /\ req' = [req EXCEPT ![r].pc = "insert", ![r].order = NewObjectId,
                                          ![r].orderId = oid,
                                          ![r].wrote = @ \cup {"order"}]
    /\ UNCHANGED <<gems, orderItems, cartItems, validateBeforeHooks, cartUniqueIndex, placed, edited,
                   budget>>

\* a line list that comes out empty
MakeOrderItemsNone(items) == <<>>

\* items.map(item => ({orderId: order._id, gemId, quantity, price}))
MakeOrderItems(items) ==
    [k \in 1..Len(items) |->
        [gemId |-> items[k].gemId, quantity |-> items[k].quantity, price |-> items[k].price]]

\* await OrderItem.insertMany(orderItems)
PlaceOrderInsertItems(r) ==
    /\ req[r].kind = "place" /\ req[r].pc = "insert"
    /\ orderItems' = [orderItems EXCEPT ![req[r].order] = MakeOrderItems(req[r].items)]
    /\ req' = [req EXCEPT ![r].pc = "stock", ![r].i = 1, ![r].wrote = @ \cup {"items"}]
    /\ UNCHANGED <<gems, orders, cartItems, validateBeforeHooks, cartUniqueIndex, placed, edited,
                   budget>>

\* Gem.findByIdAndUpdate(gemId, { $inc: { stock: delta } }): no document, no change
\* a stock adjustment that sets the stock to the amount instead of adding it
IncStockSet(g, delta) ==
    IF gems[g].exists
    THEN [gems EXCEPT ![g].stock = delta]
    ELSE gems

IncStock(g, delta) ==
    IF gems[g].exists
    THEN [gems EXCEPT ![g].stock = @ + delta]
    ELSE gems

\* one turn of: for (const item of items) await Gem.findByIdAndUpdate(.., {$inc: {stock: -quantity}})
PlaceOrderDecrement(r) ==
    /\ req[r].kind = "place" /\ req[r].pc = "stock"
    /\ LET item == req[r].items[req[r].i]
       IN /\ gems' = IncStock(item.gemId, 0 - item.quantity)
          /\ req' = [req EXCEPT ![r].i = @ + 1,
                                ![r].pc = IF req[r].i = Len(req[r].items) THEN "cart" ELSE "stock",
                                ![r].wrote = @ \cup {"stock"}]
    /\ UNCHANGED <<orders, orderItems, cartItems, validateBeforeHooks, cartUniqueIndex, placed, edited,
                   budget>>

\* CartItem.deleteMany({ userId })
\* a cart clear that deletes nothing
DeleteManyCartNothing(u) == cartItems

\* a cart clear without its userId filter
DeleteManyCartEveryone(u) == {}

DeleteManyCart(u) == {c \in cartItems : c.userId # u}

\* await CartItem.deleteMany({ userId }), then res.status(201)
PlaceOrderClearCart(r) ==
    /\ req[r].kind = "place" /\ req[r].pc = "cart"
    /\ cartItems' = DeleteManyCart(req[r].user)
    /\ req' = [req EXCEPT ![r] =
                 [Respond(r, "Success", 201, "none", "none") EXCEPT !.wrote = @ \cup {"cart"}]]
    /\ placed' = placed \cup {req[r].order}
    /\ UNCHANGED <<gems, orders, orderItems, validateBeforeHooks, cartUniqueIndex, edited, budget>>

\* an awaited storage operation rejects: the handler's catch answers 500
StorageFailure(r) ==
    /\ InFlight(r)
    /\ req' = [req EXCEPT ![r] = Respond(r, "Internal", 500, "none", "storage")]
    /\ UNCHANGED <<gems, orders, orderItems, cartItems, validateBeforeHooks, cartUniqueIndex, placed,
                   edited, budget>>

\* ------------------------------------- PUT /api/orders/:orderId/cancel
\* Order.findOne({ orderId, userId }): the _id of the matching order, 0 for null
\* the order lookup without its userId filter
FindOrderAnyUser(oid, u) ==
    LET hit == {o \in ExistingOrders : orders[o].orderId = oid}
    IN IF hit = {} THEN 0 ELSE CHOOSE o \in hit : TRUE

FindOrder(oid, u) ==
    LET hit == {o \in ExistingOrders : orders[o].orderId = oid /\ orders[o].userId = u}
    IN IF hit = {} THEN 0 ELSE CHOOSE o \in hit : TRUE

\* the status guards of the cancel handler: the failure to answer, "none" to go on
\* the cancel guards without the already-cancelled test
CancelGuardNoCancelled(status) ==
    IF status \in {"shipped", "delivered"} THEN "InvalidTransition" ELSE "none"

\* the cancel guards without the shipped/delivered test
CancelGuardNoShipped(status) ==
    IF status = "cancelled" THEN "AlreadyCancelled" ELSE "none"

CancelGuard(status) ==
    IF status = "cancelled" THEN "AlreadyCancelled"
    ELSE IF status \in {"shipped", "delivered"} THEN "InvalidTransition"
    ELSE "none"

CancelOrderStart(r, u, oid) ==
    /\ FreeSlot(r)
    /\ FirstUser(u)
    /\ budget.requests > 0
    /\ req' = Begin(r, [IdleReq EXCEPT !.kind = "cancel", !.pc = "findOrder",
                                       !.user = u, !.orderId = oid])
    /\ budget' = [budget EXCEPT !.requests = @ - 1]
    /\ UNCHANGED <<gems, orders, orderItems, cartItems, validateBeforeHooks, cartUniqueIndex, placed,
                   edited>>

\* await Order.findOne(...), then the three guards
CancelOrderFind(r) ==
    /\ req[r].kind = "cancel" /\ req[r].pc = "findOrder"
    /\ LET o == FindOrder(req[r].orderId, req[r].user)
       IN req' = [req EXCEPT ![r] =
            IF o = 0 THEN Respond(r, "NotFound", 404, "none", "none")
            ELSE IF CancelGuard(orders[o].status) # "none"
            THEN [Respond(r, CancelGuard(orders[o].status), 400, "none", "none")
                    EXCEPT !.order = o]
            ELSE [req[r] EXCEPT !.pc = "saveStatus", !.order = o,
                                !.status = orders[o].status]]
    /\ UNCHANGED <<gems, orders, orderItems, cartItems, validateBeforeHooks, cartUniqueIndex, placed,
                   edited, budget>>

\* a status change that never reaches the store
SaveCancelledUnsaved(o) == orders

\* a cancel that removes the order document instead of marking it
SaveCancelledRemoves(o) == [orders EXCEPT ![o] = NoOrder]

\* order.status = 'cancelled'; order.save() writes the one modified path
SaveCancelled(o) == [orders EXCEPT ![o].status = "cancelled"]

\* order.status = 'cancelled'; await order.save()
CancelOrderSave(r) ==
    /\ req[r].kind = "cancel" /\ req[r].pc = "saveStatus"
    /\ orders' = SaveCancelled(req[r].order)
    /\ req' = [req EXCEPT ![r].pc = "findItems", ![r].wrote = @ \cup {"status"}]
    /\ UNCHANGED <<gems, orderItems, cartItems, validateBeforeHooks, cartUniqueIndex, placed, edited,
                   budget>>

\* await OrderItem.find({ orderId: order._id })
CancelOrderFindItems(r) ==
    /\ req[r].kind = "cancel" /\ req[r].pc = "findItems"
    /\ LET lines == orderItems[req[r].order]
       IN req' = [req EXCEPT ![r] =
            IF lines = <<>>
            THEN Respond(r, "Success", 200, "none", "none")
            ELSE [req[r] EXCEPT !.pc = "restore", !.lines = lines, !.i = 1]]
    /\ UNCHANGED <<gems, orders, orderItems, cartItems, validateBeforeHooks, cartUniqueIndex, placed,
                   edited, budget>>

\* one turn of: for (const item of orderItems) await Gem.findByIdAndUpdate(.., {$inc: {stock: quantity}})
CancelOrderRestore(r) ==
    /\ req[r].kind = "cancel" /\ req[r].pc = "restore"
    /\ LET item == req[r].lines[req[r].i]
       IN /\ gems' = IncStock(item.gemId, item.quantity)
          /\ req' = [req EXCEPT ![r] =
               IF req[r].i = Len(req[r].lines)
               THEN [Respond(r, "Success", 200, "none", "none")
                       EXCEPT !.wrote = @ \cup {"stock"}]
               ELSE [req[r] EXCEPT !.i = @ + 1, !.wrote = @ \cup {"stock"}]]
    /\ UNCHANGED <<orders, orderItems, cartItems, validateBeforeHooks, cartUniqueIndex, placed, edited,
                   budget>>

\* ------------------------------------------- GET /api/orders/:orderId
GetOrderStart(r, u, oid) ==
    /\ FreeSlot(r)
    /\ FirstUser(u)
    /\ budget.requests > 0
    /\ req' = Begin(r, [IdleReq EXCEPT !.kind = "get", !.pc = "findOrder",
                                       !.user = u, !.orderId = oid])
    /\ budget' = [budget EXCEPT !.requests = @ - 1]
    /\ UNCHANGED <<gems, orders, orderItems, cartItems, validateBeforeHooks, cartUniqueIndex, placed,
                   edited>>

GetOrderFind(r) ==
    /\ req[r].kind = "get" /\ req[r].pc = "findOrder"
    /\ LET o == FindOrder(req[r].orderId, req[r].user)
       IN req' = [req EXCEPT ![r] =
            IF o = 0 THEN Respond(r, "NotFound", 404, "none", "none")
            ELSE [req[r] EXCEPT !.pc = "findItems", !.order = o]]
    /\ UNCHANGED <<gems, orders, orderItems, cartItems, validateBeforeHooks, cartUniqueIndex, placed,
                   edited, budget>>

GetOrderFindItems(r) ==
    /\ req[r].kind = "get" /\ req[r].pc = "findItems"
    /\ req' = [req EXCEPT ![r] = Respond(r, "Success", 200, "none", "none")]
    /\ UNCHANGED <<gems, orders, orderItems, cartItems, validateBeforeHooks, cartUniqueIndex, placed,
                   edited, budget>>

\* ------------------------------------------------------------ /api/cart
CartIds == 1..MaxCartItems   \* CartItem _id values

\* the cart items of user u for gem g
CartItemsOf(u, g) == {c \in cartItems : c.userId = u /\ c.gemId = g}

\* CartItem.findOne({ userId, gemId }): the first matching document, 0 for null
CartFindOne(u, g) ==
    IF CartItemsOf(u, g) = {} THEN 0
    ELSE CHOOSE id \in {c.id : c \in CartItemsOf(u, g)} :
             \A c \in CartItemsOf(u, g) : id <= c.id

CartItemById(id) == CHOOSE c \in cartItems : c.id = id

\* the _id of a new CartItem document: one no stored or loaded document has
NewCartId ==
    CHOOSE id \in CartIds :
        /\ \A c \in cartItems : c.id # id
        /\ \A q \in Reqs : req[q].cartItem # id
        /\ \A j \in CartIds :
              (/\ \A c \in cartItems : c.id # j
               /\ \A q \in Reqs : req[q].cartItem # j) => id <= j

\* a cart request of user u arrives on connection r; express-validator: quantity >= 1
CartBegin(r, u, kind, g, quantity) ==
    /\ FreeSlot(r)
    /\ FirstUser(u)
    /\ budget.requests > 0
    /\ budget.cart > 0
    /\ LET fresh == [IdleReq EXCEPT !.kind = kind, !.user = u]
       IN req' = Begin(r, IF quantity >= 1
                          THEN [fresh EXCEPT !.pc = "start", !.gemId = g,
                                             !.quantity = quantity]
                          ELSE [fresh EXCEPT !.pc = "done", !.result = "ValidationFailed",
                                             !.http = 400])
    /\ budget' = [budget EXCEPT !.requests = @ - 1, !.cart = @ - 1]
    /\ UNCHANGED <<gems, orders, orderItems, cartItems, validateBeforeHooks,
                   cartUniqueIndex, placed, edited>>

\* await Gem.findById(gemId), then the existence and the availability/stock checks
CartCheckGem(r, next) ==
    LET gem == gems[req[r].gemId]
    IN req' = [req EXCEPT ![r] =
         IF ~gem.exists THEN Respond(r, "NotFound", 404, "none", "none")
         ELSE IF ~gem.availability \/ gem.stock < req[r].quantity
         THEN Respond(r, "InsufficientStock", 400, "none", "none")
         ELSE [req[r] EXCEPT !.pc = next, !.gemStock = gem.stock]]

\* POST /api/cart/add
AddToCartStart(r, u, g, quantity) == CartBegin(r, u, "cartAdd", g, quantity)

AddToCartFindGem(r) ==
    /\ req[r].kind = "cartAdd" /\ req[r].pc = "start"
    /\ CartCheckGem(r, "findItem")
    /\ UNCHANGED <<gems, orders, orderItems, cartItems, validateBeforeHooks,
                   cartUniqueIndex, placed, edited, budget>>

\* let cartItem = await CartItem.findOne({ userId, gemId });
\* if (cartItem) cartItem.quantity += quantity   (on the loaded copy)
AddToCartFindItem(r) ==
    /\ req[r].kind = "cartAdd" /\ req[r].pc = "findItem"
    /\ LET id == CartFindOne(req[r].user, req[r].gemId)
       IN req' = [req EXCEPT ![r].pc = "save", ![r].cartItem = id,
                             ![r].cartQuantity =
                                 IF id = 0 THEN req[r].quantity
                                 ELSE CartItemById(id).quantity + req[r].quantity]
    /\ UNCHANGED <<gems, orders, orderItems, cartItems, validateBeforeHooks,
                   cartUniqueIndex, placed, edited, budget>>

\* await cartItem.save(): for a loaded document an update of its quantity by _id
\* (rejected when the document is gone), for a new one an insert (rejected by the
\* unique index, where there is one, when the pair is already stored)
AddToCartSave(r) ==
    /\ req[r].kind = "cartAdd" /\ req[r].pc = "save"
    /\ LET id == req[r].cartItem
           u == req[r].user
           g == req[r].gemId
       IN IF id # 0
          THEN IF \E c \in cartItems : c.id = id
               THEN /\ cartItems' = (cartItems \ {CartItemById(id)}) \cup
                                       {[CartItemById(id) EXCEPT
                                           !.quantity = req[r].cartQuantity]}
                    /\ req' = [req EXCEPT ![r] =
                                 [Respond(r, "Success", 201, "none", "none")
                                    EXCEPT !.wrote = {"cart"}]]
               ELSE /\ req' = [req EXCEPT ![r] =
                                 Respond(r, "Internal", 500, "none", "documentNotFound")]
                    /\ UNCHANGED cartItems
          ELSE IF cartUniqueIndex /\ CartItemsOf(u, g) # {}
               THEN /\ req' = [req EXCEPT ![r] =
                                 Respond(r, "Internal", 500, "none", "duplicateKey")]
                    /\ UNCHANGED cartItems
               ELSE /\ cartItems' = cartItems \cup
                          {[id |-> NewCartId, userId |-> u, gemId |-> g,
                            quantity |-> req[r].cartQuantity]}
                    /\ req' = [req EXCEPT ![r] =
                                 [Respond(r, "Success", 201, "none", "none")
                                    EXCEPT !.wrote = {"cart"}]]
    /\ UNCHANGED <<gems, orders, orderItems, validateBeforeHooks, cartUniqueIndex,
                   placed, edited, budget>>

\* PUT /api/cart/update/:gemId
UpdateCartStart(r, u, g, quantity) == CartBegin(r, u, "cartUpdate", g, quantity)

UpdateCartFindGem(r) ==
    /\ req[r].kind = "cartUpdate" /\ req[r].pc = "start"
    /\ CartCheckGem(r, "update")
    /\ UNCHANGED <<gems, orders, orderItems, cartItems, validateBeforeHooks,
                   cartUniqueIndex, placed, edited, budget>>

\* await CartItem.findOneAndUpdate({ userId, gemId }, { quantity }, { new: true })
UpdateCartWrite(r) ==
    /\ req[r].kind = "cartUpdate" /\ req[r].pc = "update"
    /\ LET id == CartFindOne(req[r].user, req[r].gemId)
       IN IF id = 0
          THEN /\ req' = [req EXCEPT ![r] = Respond(r, "NotFound", 404, "none", "none")]
               /\ UNCHANGED cartItems
          ELSE /\ cartItems' = (cartItems \ {CartItemById(id)}) \cup
                                  {[CartItemById(id) EXCEPT !.quantity = req[r].quantity]}
               /\ req' = [req EXCEPT ![r] =
                            [Respond(r, "Success", 200, "none", "none")
                               EXCEPT !.wrote = {"cart"}]]
    /\ UNCHANGED <<gems, orders, orderItems, validateBeforeHooks, cartUniqueIndex,
                   placed, edited, budget>>

\* DELETE /api/cart/remove/:gemId
RemoveFromCartStart(r, u, g) == CartBegin(r, u, "cartRemove", g, 1)

\* await CartItem.findOneAndDelete({ userId, gemId })
RemoveFromCart(r) ==
    /\ req[r].kind = "cartRemove" /\ req[r].pc = "start"
    /\ LET id == CartFindOne(req[r].user, req[r].gemId)
       IN IF id = 0
          THEN /\ req' = [req EXCEPT ![r] = Respond(r, "NotFound", 404, "none", "none")]
               /\ UNCHANGED cartItems
          ELSE /\ cartItems' = cartItems \ {CartItemById(id)}
               /\ req' = [req EXCEPT ![r] =
                            [Respond(r, "Success", 200, "none", "none")
                               EXCEPT !.wrote = {"cart"}]]
    /\ UNCHANGED <<gems, orders, orderItems, validateBeforeHooks, cartUniqueIndex,
                   placed, edited, budget>>

\* DELETE /api/cart/clear
ClearCartStart(r, u) == CartBegin(r, u, "cartClear", "none", 1)

\* await CartItem.deleteMany({ userId })
ClearCart(r) ==
    /\ req[r].kind = "cartClear" /\ req[r].pc = "start"
    /\ cartItems' = DeleteManyCart(req[r].user)
    /\ req' = [req EXCEPT ![r] =
                 [Respond(r, "Success", 200, "none", "none") EXCEPT !.wrote = {"cart"}]]
    /\ UNCHANGED <<gems, orders, orderItems, validateBeforeHooks, cartUniqueIndex,
                   placed, edited, budget>>

\* --------------------------------------------------- /api/gems writes
\* POST /api/gems: new Gem(req.body).save(); stock is validated isInt({min: 0})
AddGem(g, stock, availability) ==
    /\ budget.admin > 0
    /\ ~gems[g].exists /\ ~edited[g]    \* a new document gets a new _id
    /\ gems' = [gems EXCEPT ![g] =
                  [exists |-> TRUE, stock |-> stock, availability |-> availability,
                   price |-> MaxPrice]]
    /\ edited' = [edited EXCEPT ![g] = TRUE]
    /\ budget' = [budget EXCEPT !.admin = @ - 1]
    /\ UNCHANGED <<orders, orderItems, cartItems, req, validateBeforeHooks, cartUniqueIndex, placed>>

\* PUT /api/gems/:id with a stock in the body: Gem.findByIdAndUpdate(id, req.body, ...)
UpdateGemStock(g, stock) ==
    /\ budget.admin > 0
    /\ gems[g].exists
    /\ gems' = [gems EXCEPT ![g].stock = stock]
    /\ edited' = [edited EXCEPT ![g] = TRUE]
    /\ budget' = [budget EXCEPT !.admin = @ - 1]
    /\ UNCHANGED <<orders, orderItems, cartItems, req, validateBeforeHooks, cartUniqueIndex, placed>>

\* PUT /api/gems/:id with an availability in the body
UpdateGemAvailability(g, availability) ==
    /\ budget.admin > 0
    /\ gems[g].exists
    /\ gems' = [gems EXCEPT ![g].availability = availability]
    /\ edited' = [edited EXCEPT ![g] = TRUE]
    /\ budget' = [budget EXCEPT !.admin = @ - 1]
    /\ UNCHANGED <<orders, orderItems, cartItems, req, validateBeforeHooks, cartUniqueIndex, placed>>

\* PUT /api/gems/:id with a price in the body
UpdateGemPrice(g, price) ==
    /\ budget.admin > 0
    /\ gems[g].exists
    /\ gems[g].price # price
    /\ gems' = [gems EXCEPT ![g].price = price]
    /\ edited' = [edited EXCEPT ![g] = TRUE]
    /\ budget' = [budget EXCEPT !.admin = @ - 1]
    /\ UNCHANGED <<orders, orderItems, cartItems, req, validateBeforeHooks, cartUniqueIndex, placed>>

\* DELETE /api/gems/:id: Gem.findByIdAndDelete(id)
DeleteGem(g) ==
    /\ budget.admin > 0
    /\ gems[g].exists
    /\ gems' = [gems EXCEPT ![g] = NoGem]
    /\ edited' = [edited EXCEPT ![g] = TRUE]
    /\ budget' = [budget EXCEPT !.admin = @ - 1]
    /\ UNCHANGED <<orders, orderItems, cartItems, req, validateBeforeHooks, cartUniqueIndex, placed>>

\* ------------------------------------------- fulfilment (status progress)
NextStatus(status) ==
    CASE status = "pending" -> "confirmed"
      [] status = "confirmed" -> "processing"
      [] status = "processing" -> "shipped"
      [] status = "shipped" -> "delivered"
      [] OTHER -> status

\* the order moves one step along pending, confirmed, processing, shipped, delivered
AdvanceStatus(o) ==
    /\ o \in ExistingOrders
    /\ budget.advances > 0
    /\ NextStatus(orders[o].status) # orders[o].status
    /\ orders' = [orders EXCEPT ![o].status = NextStatus(@)]
    /\ budget' = [budget EXCEPT !.advances = @ - 1]
    /\ UNCHANGED <<gems, orderItems, cartItems, req, validateBeforeHooks, cartUniqueIndex, placed,
                   edited>>

\* ------------------------------------------------------- specification
\* every user starts with one unit of every gem in the cart
InitCart ==
    {[id |-> Len(GemOrder) * (UserRank(u) - 1) + GemRank(g), userId |-> u, gemId |-> g,
      quantity |-> 1] : u \in Users, g \in GemIds}

\* A run is given one of five budgets: a longer sequence of requests around one
\* placement; placements racing each other and administrative gem writes; a
\* placement, fulfilment steps and a further request; cart requests racing each
\* other or a placement; or a longer sequence of cart requests.
Budgets ==
    {[requests |-> MaxRequests, places |-> MaxPlaces - 1, admin |-> 0, advances |-> 0,
      cart |-> 0],
     [requests |-> MaxRequests - 1, places |-> MaxPlaces, admin |-> MaxAdminOps,
      advances |-> 0, cart |-> 0],
     [requests |-> MaxRequests - 1, places |-> MaxPlaces - 1, admin |-> 0,
      advances |-> MaxAdvances, cart |-> 0],
     [requests |-> MaxRequests - 1, places |-> MaxPlaces - 1, admin |-> 0,
      advances |-> 0, cart |-> MaxCartOps - 1],
     [requests |-> MaxRequests, places |-> 0, admin |-> 0,
      advances |-> 0, cart |-> MaxCartOps]}

Init ==
    /\ gems = [g \in GemIds |->
                 IF g \in InitCatalog
                 THEN [exists |-> TRUE, stock |-> InitStock, availability |-> TRUE,
                       price |-> MaxPrice]
                 ELSE NoGem]
    /\ orders = [o \in OrderIds |-> NoOrder]
    /\ orderItems = [o \in OrderIds |-> <<>>]
    /\ cartItems = InitCart
    /\ req = [r \in Reqs |-> IdleReq]
    /\ budget \in Budgets
    /\ validateBeforeHooks \in (IF budget.places > 0 THEN BOOLEAN ELSE {FALSE})
    /\ cartUniqueIndex \in (IF budget.cart > 0 THEN BOOLEAN ELSE {FALSE})
    /\ placed = {}
    /\ edited = [g \in GemIds |-> FALSE]

Next ==
    \/ \E r \in Reqs, u \in Users, items \in ItemLists : PlaceOrderStart(r, u, items)
    \/ \E r \in Reqs : PlaceOrderFind(r)
    \/ \E r \in Reqs : PlaceOrderSave(r)
    \/ \E r \in Reqs : PlaceOrderInsertItems(r)
    \/ \E r \in Reqs : PlaceOrderDecrement(r)
    \/ \E r \in Reqs : PlaceOrderClearCart(r)
    \/ \E r \in Reqs, u \in Users, oid \in OrderIdStrings : CancelOrderStart(r, u, oid)
    \/ \E r \in Reqs : CancelOrderFind(r)
    \/ \E r \in Reqs : CancelOrderSave(r)
    \/ \E r \in Reqs : CancelOrderFindItems(r)
    \/ \E r \in Reqs : CancelOrderRestore(r)
    \/ \E r \in Reqs, u \in Users, oid \in OrderIdStrings : GetOrderStart(r, u, oid)
    \/ \E r \in Reqs : GetOrderFind(r)
    \/ \E r \in Reqs : GetOrderFindItems(r)
    \/ \E r \in Reqs : StorageFailure(r)
    \/ \E r \in Reqs, u \in Users, g \in GemIds, quantity \in 0..MaxQty :
          AddToCartStart(r, u, g, quantity)
    \/ \E r \in Reqs : AddToCartFindGem(r)
    \/ \E r \in Reqs : AddToCartFindItem(r)
    \/ \E r \in Reqs : AddToCartSave(r)
    \/ \E r \in Reqs, u \in Users, g \in GemIds, quantity \in 0..MaxQty :
          UpdateCartStart(r, u, g, quantity)
    \/ \E r \in Reqs : UpdateCartFindGem(r)
    \/ \E r \in Reqs : UpdateCartWrite(r)
    \/ \E r \in Reqs, u \in Users, g \in GemIds : RemoveFromCartStart(r, u, g)
    \/ \E r \in Reqs : RemoveFromCart(r)
    \/ \E r \in Reqs, u \in Users : ClearCartStart(r, u)
    \/ \E r \in Reqs : ClearCart(r)
    \/ \E g \in GemIds, stock \in 0..MaxStock, a \in BOOLEAN : AddGem(g, stock, a)
    \/ \E g \in GemIds, stock \in 0..MaxStock : UpdateGemStock(g, stock)
    \/ \E g \in GemIds, a \in BOOLEAN : UpdateGemAvailability(g, a)
    \/ \E g \in GemIds, price \in Prices : UpdateGemPrice(g, price)
    \/ \E g \in GemIds : DeleteGem(g)
    \/ \E o \in OrderIds : AdvanceStatus(o)

Spec == Init /\ [][Next]_vars

\* ================================================================ properties
Quiet == \A r \in Reqs : ~InFlight(r)

\* the request on connection r takes a step (its position or loop index moves)
StepOf(r) == req'[r].pc # req[r].pc \/ req'[r].i # req[r].i

StoresUnchanged == UNCHANGED <<gems, orders, orderItems, cartItems>>

RECURSIVE HeldUpTo(_, _)
\* units of gem g held by the placed, not cancelled orders among 1..n
HeldUpTo(n, g) ==
    IF n = 0 THEN 0
    ELSE (IF n \in placed /\ orders[n].status # "cancelled"
          THEN SumOver(orderItems[n], g) ELSE 0) + HeldUpTo(n - 1, g)

\* C1 (as stated): once every place and cancel request has ended, a gem no
\* administrative write touched holds its initial stock minus the quantities on
\* the lines of the successfully placed orders that are not cancelled.
C1_StockConservation ==
    Quiet => \A g \in InitCatalog :
                ~edited[g] => gems[g].stock = InitStock - HeldUpTo(MaxOrders, g)

\* two completed placements that ran concurrently, each a single line for gem g,
\* each fitting the initial stock alone but not together, nothing else having
\* touched g
RaceOn(r1, r2, g) ==
    /\ r1 # r2
    /\ \A r \in {r1, r2} :
         /\ req[r].kind = "place" /\ req[r].pc = "done"
         /\ req[r].overlapped
         /\ req[r].cause = "none"
         /\ Len(req[r].items) = 1
         /\ req[r].items[1].gemId = g
         /\ req[r].items[1].quantity <= InitStock
    /\ req[r1].items[1].quantity + req[r2].items[1].quantity > InitStock
    /\ g \in InitCatalog /\ ~edited[g]
    /\ ExistingOrders \subseteq {req[r1].order, req[r2].order}

\* C2 (as stated): of two such concurrent placements exactly one succeeds, the
\* other fails with InsufficientStock, and the stock ends at the initial stock
\* minus the successful quantity.
C2_ExactlyOneSucceeds ==
    \A r1, r2 \in Reqs : \A g \in GemIds :
        RaceOn(r1, r2, g) =>
            /\ req[r1].result = "Success" => req[r2].result = "InsufficientStock"
            /\ req[r2].result = "Success" => req[r1].result = "InsufficientStock"
            /\ req[r1].result = "Success" \/ req[r2].result = "Success"
            /\ \A r \in {r1, r2} :
                 req[r].result = "Success" =>
                     gems[g].stock = InitStock - req[r].items[1].quantity

\* C3 (as stated): in every reachable state every gem's stock is at least 0.
C3_StockNonNegative == \A g \in GemIds : gems[g].stock >= 0

\* the placement on connection r leaves its gem lookup in this step, the lookup
\* itself not having failed
LookupEnds(r) ==
    /\ req[r].kind = "place" /\ req[r].pc = "find"
    /\ req'[r].pc # "find"
    /\ req'[r].cause # "storage"

\* the lines of `items` whose gem is on sale-record but unavailable or short of
\* the quantity asked, in the catalog as it is now
ShortLines(items) ==
    {k \in 1..Len(items) :
        /\ gems[items[k].gemId].exists
        /\ \/ ~gems[items[k].gemId].availability
           \/ gems[items[k].gemId].stock < items[k].quantity}

FirstOf(S) == CHOOSE k \in S : \A j \in S : k <= j

\* every line names a gem of the catalog and no two lines name the same one
OneGemPerLine(items) ==
    /\ \A k \in 1..Len(items) : gems[items[k].gemId].exists
    /\ \A j, k \in 1..Len(items) : j # k => items[j].gemId # items[k].gemId

\* C4 (as stated): a placement with a line whose gem is unavailable or short
\* fails with InsufficientStock (400, naming the gem) and changes no stock, order,
\* order line or cart item.
C4_Original ==
    [][\A r \in Reqs :
         (LookupEnds(r) /\ ShortLines(req[r].items) # {}) =>
            /\ req'[r].result = "InsufficientStock" /\ req'[r].http = 400
            /\ req'[r].gemName = req[r].items[FirstOf(ShortLines(req[r].items))].gemId
            /\ StoresUnchanged]_vars

\* C4 (amended): such a placement fails with HTTP 400 and changes no stock, order,
\* order line or cart item; the failure is InsufficientStock naming the first such
\* gem when every line names a distinct gem of the catalog, and the
\* gems-not-found failure when some line names a gem that is not in the catalog.
C4_NoOversell ==
    [][\A r \in Reqs :
         (LookupEnds(r) /\ ShortLines(req[r].items) # {}) =>
            /\ req'[r].pc = "done" /\ req'[r].http = 400
            /\ req'[r].wrote = {}
            /\ StoresUnchanged
            /\ IF OneGemPerLine(req[r].items)
               THEN /\ req'[r].result = "InsufficientStock"
                    /\ req'[r].gemName =
                         req[r].items[FirstOf(ShortLines(req[r].items))].gemId
               ELSE (\E k \in 1..Len(req[r].items) :
                        ~gems[req[r].items[k].gemId].exists) =>
                            req'[r].result = "GemsNotFound"]_vars

\* C4 witness: a placement was refused for insufficient stock, naming the gem
C4_Witness ==
    \E r \in Reqs :
        /\ req[r].kind = "place" /\ req[r].pc = "done"
        /\ req[r].result = "InsufficientStock"
        /\ req[r].gemName \in GemIds
        /\ Len(req[r].items) = 2
        /\ req[r].gemName = req[r].items[2].gemId

\* C5 (as stated): a placement that fails leaves nothing of itself persisted: no
\* order header, no order line, no stock change, no cart change.
C5_AllOrNothing ==
    \A r \in Reqs :
        (req[r].kind = "place" /\ req[r].pc = "done" /\ req[r].result # "Success") =>
            /\ req[r].wrote = {}
            /\ req[r].order # 0 =>
                 orders[req[r].order] = NoOrder /\ orderItems[req[r].order] = <<>>

\* C6 (as stated): a placement that passes validation and meets no storage
\* failure answers success, with a pending order of the user that has an
\* identifier, one order line per request line, and every stock decrement made.
C6_ValidPlacementSucceeds ==
    \A r \in Reqs :
        (/\ req[r].kind = "place" /\ req[r].pc = "done"
         /\ req[r].result \notin {"ValidationFailed", "GemsNotFound", "InsufficientStock"}
         /\ req[r].cause \notin {"storage", "duplicateKey"}) =>
            /\ req[r].result = "Success" /\ req[r].http = 201
            /\ req[r].order \in ExistingOrders
            /\ orders[req[r].order].userId = req[r].user
            /\ orders[req[r].order].orderId # 0
            /\ orderItems[req[r].order] = req[r].items
            /\ {"order", "items", "stock"} \subseteq req[r].wrote

CartKinds == {"cartAdd", "cartUpdate", "cartRemove", "cartClear"}

\* C7: a step of a placement empties the requesting user's cart, and touches no
\* other user's cart, when it is the step that answers success; every other step
\* of a placement, the failing ones included, leaves all carts as they were; and
\* carts change in no other way than by the cart routes' own writes.
C7_CartClearedOnSuccess ==
    [][/\ \A r \in Reqs :
            (req'[r] # req[r] /\ req'[r].kind = "place") =>
               IF req'[r].result = "Success"
               THEN /\ \A c \in cartItems' : c.userId # req'[r].user
                    /\ \A c \in cartItems : c.userId # req'[r].user => c \in cartItems'
                    /\ cartItems' \subseteq cartItems
               ELSE cartItems' = cartItems
       /\ cartItems' # cartItems =>
             \E r \in Reqs :
                \/ req[r].pc = "cart" /\ req'[r].result = "Success"
                \/ req[r].kind \in CartKinds /\ req'[r].result = "Success"]_vars

\* C7 witness: a placement of one gem has succeeded and its user's cart, which
\* held another gem too, is empty while the other user's cart is intact
C7_Witness ==
    \E r \in Reqs :
        /\ req[r].kind = "place" /\ req[r].pc = "done" /\ req[r].result = "Success"
        /\ Len(req[r].items) = 1
        /\ \A c \in cartItems : c.userId # req[r].user
        /\ \E c \in InitCart : c.userId = req[r].user /\ c.gemId # req[r].items[1].gemId
        /\ \E c \in cartItems : c.userId # req[r].user

\* the fetch or cancel on connection r leaves its order lookup in this step, the
\* lookup itself not having failed
OrderLookupEnds(r) ==
    /\ req[r].kind \in {"get", "cancel"} /\ req[r].pc = "findOrder"
    /\ req'[r].pc # "findOrder"
    /\ req'[r].cause # "storage"

\* the orders that carry the identifier o
OrdersWithId(oid) == {o \in ExistingOrders : orders[o].orderId = oid}

\* C8: a fetch or cancel for the identifier of an order owned by another user
\* answers NotFound (404), exactly as for an identifier no order carries, and
\* changes no order and no stock.
C8_OwnershipIsolation ==
    [][\A r \in Reqs :
         (/\ OrderLookupEnds(r)
          /\ \A o \in OrdersWithId(req[r].orderId) : orders[o].userId # req[r].user) =>
            /\ req'[r].pc = "done"
            /\ req'[r].result = "NotFound" /\ req'[r].http = 404
            /\ req'[r].order = 0 /\ req'[r].wrote = {}
            /\ StoresUnchanged]_vars

\* C8 witness: a cancel and a fetch for another user's existing order were both
\* answered NotFound
C8_Witness ==
    \E r1, r2 \in Reqs :
        /\ req[r1].kind = "cancel" /\ req[r2].kind = "get"
        /\ \A r \in {r1, r2} :
              /\ req[r].pc = "done" /\ req[r].result = "NotFound"
              /\ \E o \in OrdersWithId(req[r].orderId) :
                    orders[o].userId # req[r].user /\ orders[o].status = "pending"

\* the cancel on connection r finishes its lookup and guards in this step, having
\* found the order o of its user
CancelFinds(r, o) ==
    /\ req[r].kind = "cancel"
    /\ OrderLookupEnds(r)
    /\ o \in OrdersWithId(req[r].orderId)
    /\ orders[o].userId = req[r].user

\* C9: a cancelled order stays cancelled, an order whose cancel has answered
\* success is cancelled, and a cancel that finds its order already cancelled
\* answers AlreadyCancelled (400) and changes no order, order line or stock.
C9_AlreadyCancelled ==
    [][/\ \A o \in OrderIds :
            orders[o].status = "cancelled" => orders'[o] = orders[o]
       /\ \A r \in Reqs :
            (req'[r].kind = "cancel" /\ req'[r].result = "Success") =>
               orders'[req'[r].order].status = "cancelled"
       /\ \A r \in Reqs : \A o \in OrderIds :
            (CancelFinds(r, o) /\ orders[o].status = "cancelled") =>
               /\ req'[r].pc = "done"
               /\ req'[r].result = "AlreadyCancelled" /\ req'[r].http = 400
               /\ req'[r].wrote = {}
               /\ StoresUnchanged]_vars

\* C9 witness: the order was placed and then cancelled, its stock is back at the
\* first value, and a later cancel of it, overlapping no other request, was
\* answered AlreadyCancelled
C9_Witness ==
    \E r \in Reqs :
        /\ req[r].kind = "cancel" /\ req[r].pc = "done"
        /\ req[r].result = "AlreadyCancelled"
        /\ ~req[r].overlapped
        /\ req[r].order \in placed
        /\ orders[req[r].order].status = "cancelled"
        /\ orderItems[req[r].order] # <<>>
        /\ gems["g1"].stock = InitStock /\ ~edited["g1"]

CancellableStatuses == {"pending", "confirmed", "processing"}

\* C10: a cancel goes on to write the cancelled status only when the order it
\* found is its user's and is pending, confirmed or processing at that moment;
\* an order becomes cancelled only by the write of such a cancel; and a cancel
\* that finds its order shipped or delivered answers InvalidTransition (400) and
\* changes no order, order line or stock.
C10_CancelTransitions ==
    [][/\ \A r \in Reqs :
            (req[r].kind = "cancel" /\ req[r].pc = "findOrder"
                                    /\ req'[r].pc = "saveStatus") =>
               /\ req'[r].order \in OrdersWithId(req[r].orderId)
               /\ orders[req'[r].order].userId = req[r].user
               /\ orders[req'[r].order].status \in CancellableStatuses
               /\ req'[r].status = orders[req'[r].order].status
       /\ \A o \in OrderIds :
            (orders'[o].status = "cancelled" /\ orders[o].status # "cancelled") =>
               \E r \in Reqs :
                  /\ req[r].kind = "cancel" /\ req[r].pc = "saveStatus"
                  /\ req'[r].pc # "saveStatus"
                  /\ req[r].order = o
                  /\ req[r].user = orders[o].userId
                  /\ req[r].status \in CancellableStatuses
       /\ \A r \in Reqs : \A o \in OrderIds :
            (CancelFinds(r, o) /\ orders[o].status \in {"shipped", "delivered"}) =>
               /\ req'[r].pc = "done"
               /\ req'[r].result = "InvalidTransition" /\ req'[r].http = 400
               /\ req'[r].wrote = {}
               /\ StoresUnchanged]_vars

\* C10 witness: a cancel of a delivered order was answered InvalidTransition and
\* the order is still delivered
C10_Witness ==
    \E r \in Reqs :
        /\ req[r].kind = "cancel" /\ req[r].pc = "done"
        /\ req[r].result = "InvalidTransition"
        /\ req[r].order \in placed
        /\ ~req[r].overlapped
        /\ orders[req[r].order].status = "delivered"

\* the cancel on connection r runs one awaited operation in this step and the
\* operation does not fail
CancelStep(r, pc) ==
    /\ req[r].kind = "cancel" /\ req[r].pc = pc
    /\ StepOf(r)
    /\ req'[r].cause # "storage"

\* C11: a cancel reads the lines recorded on its order and, line by line, adds
\* exactly the line's quantity to the stock the line's gem has at that moment,
\* changing no other gem; it answers success only after the last line; and a
\* cancel running alone on the only order, successfully placed, with no
\* administrative write, brings every gem back to its stock before the placement.
C11_CancelRestoresLines ==
    /\ [][\A r \in Reqs :
            /\ CancelStep(r, "findItems") =>
                  \/ orderItems[req[r].order] = <<>> /\ req'[r].result = "Success"
                  \/ /\ req'[r].pc = "restore"
                     /\ req'[r].lines = orderItems[req[r].order]
                     /\ req'[r].i = 1
            /\ CancelStep(r, "restore") =>
                  /\ \A g \in GemIds :
                        gems[g].exists =>
                           gems'[g].stock = gems[g].stock +
                              (IF g = req[r].lines[req[r].i].gemId
                               THEN req[r].lines[req[r].i].quantity ELSE 0)
                  /\ IF req[r].i < Len(req[r].lines)
                     THEN /\ req'[r].pc = "restore"
                          /\ req'[r].i = req[r].i + 1
                          /\ req'[r].lines = req[r].lines
                     ELSE req'[r].result = "Success" /\ req'[r].http = 200]_vars
    /\ [](\A r \in Reqs :
            (/\ req[r].kind = "cancel" /\ req[r].pc = "done"
             /\ req[r].result = "Success" /\ ~req[r].overlapped
             /\ ExistingOrders = {req[r].order} /\ req[r].order \in placed
             /\ \A g \in GemIds : ~edited[g]) =>
                \A g \in InitCatalog : gems[g].stock = InitStock)

\* C11 witness: an order of two units was placed and then cancelled by a cancel
\* that ran alone, and the stock is back at its first value
C11_Witness ==
    \E r \in Reqs :
        /\ req[r].kind = "cancel" /\ req[r].pc = "done"
        /\ req[r].result = "Success" /\ ~req[r].overlapped
        /\ req[r].order \in placed
        /\ "stock" \in req[r].wrote
        /\ SumOver(orderItems[req[r].order], "g1") = 2
        /\ gems["g1"].stock = InitStock

\* some line of `items` names a gem the catalog does not hold
UnresolvedLine(items) ==
    \E k \in 1..Len(items) : ~gems[items[k].gemId].exists

\* C12 (as stated): a placement with a line whose gem does not exist is answered
\* 404 before any write: no order, order line, stock change or cart change.
C12_GemNotFound404 ==
    [][\A r \in Reqs :
         (LookupEnds(r) /\ UnresolvedLine(req[r].items)) =>
            /\ req'[r].pc = "done"
            /\ req'[r].http = 404
            /\ req'[r].wrote = {}
            /\ StoresUnchanged]_vars

RECURSIVE TotalUpTo(_, _)
\* price x quantity summed over the first n lines of a request
TotalUpTo(items, n) ==
    IF n = 0 THEN 0
    ELSE TotalUpTo(items, n - 1) + items[n].price * items[n].quantity

\* the placement on connection r has stored its order header and has not failed
HeaderStored(r) ==
    /\ req[r].kind = "place"
    /\ \/ req[r].pc \in {"insert", "stock", "cart"}
       \/ req[r].pc = "done" /\ req[r].result = "Success"

\* C13: the total stored on an order is the sum over the request's lines of the
\* price sent times the quantity, and is not negative.
C13_TotalIsRequestSum ==
    \A r \in Reqs :
        HeaderStored(r) =>
            /\ orders[req[r].order].total = TotalUpTo(req[r].items, Len(req[r].items))
            /\ orders[req[r].order].total >= 0

\* C13 witness: an order of two lines at different prices, below the catalog
\* price, was placed and its total is the sum of the two sent prices
C13_Witness ==
    \E r \in Reqs :
        /\ req[r].kind = "place" /\ req[r].pc = "done" /\ req[r].result = "Success"
        /\ Len(req[r].items) = 2
        /\ req[r].items[1].price # req[r].items[2].price
        /\ orders[req[r].order].total = 3
        /\ \E k \in 1..2 : gems[req[r].items[k].gemId].price # req[r].items[k].price

\* C14: once an order header is stored no step removes it or changes its
\* identifier, owner or total, and once its lines are stored no step removes or
\* changes them; only the status of an order changes.
C14_OrdersImmutable ==
    [][\A o \in OrderIds :
         /\ orders[o] # NoOrder =>
               /\ orders'[o] # NoOrder
               /\ orders'[o].orderId = orders[o].orderId
               /\ orders'[o].userId = orders[o].userId
               /\ orders'[o].total = orders[o].total
         /\ orderItems[o] # <<>> => orderItems'[o] = orderItems[o]]_vars

\* C14 witness: a placed order was cancelled and still has its header and its
\* lines, which still add up to its total
C14_Witness ==
    \E o \in placed :
        /\ orders[o].status = "cancelled"
        /\ orders[o].userId \in Users
        /\ orderItems[o] # <<>>
        /\ orders[o].total = TotalUpTo(orderItems[o], Len(orderItems[o]))
        /\ \E r \in Reqs : req[r].kind = "cancel" /\ req[r].result = "Success"
                               /\ req[r].order = o

\* the lines stored for order o are the lines of the request `items`, one for one
LinesStoredFor(o, items) ==
    /\ Len(orderItems[o]) = Len(items)
    /\ \A k \in 1..Len(items) :
          /\ orderItems[o][k].gemId = items[k].gemId
          /\ orderItems[o][k].quantity = items[k].quantity
          /\ orderItems[o][k].price = items[k].price

\* C15: a placement lowers a stock only when its order header and all its order
\* lines are already stored, and a placement that has lowered a stock, whether it
\* went on or failed afterwards, has its header and lines in the store.
C15_DecrementAfterOrder ==
    /\ [][\A r \in Reqs :
            (req[r].kind = "place" /\ StepOf(r) /\ gems' # gems) =>
               /\ req[r].order \in ExistingOrders
               /\ orders[req[r].order].userId = req[r].user
               /\ LinesStoredFor(req[r].order, req[r].items)]_vars
    /\ [](\A r \in Reqs :
            (req[r].kind = "place" /\ "stock" \in req[r].wrote) =>
               /\ req[r].order \in ExistingOrders
               /\ orders[req[r].order].userId = req[r].user
               /\ orderItems[req[r].order] # <<>>)

\* C15 witness: a placement of two lines failed after its first decrement; its
\* header and both lines are stored
C15_Witness ==
    \E r \in Reqs :
        /\ req[r].kind = "place" /\ req[r].pc = "done" /\ req[r].cause = "storage"
        /\ "stock" \in req[r].wrote
        /\ req[r].order \in ExistingOrders
        /\ Len(orderItems[req[r].order]) = 2
        /\ gems["g1"].stock = InitStock - 1

\* C16: a cancel raises a stock only when the stored status of its order is
\* already cancelled, and a cancel that has raised a stock, whether it went on or
\* failed afterwards, has its order stored as cancelled.
C16_StatusBeforeRestore ==
    /\ [][\A r \in Reqs :
            (req[r].kind = "cancel" /\ StepOf(r) /\ gems' # gems) =>
               /\ req[r].order \in ExistingOrders
               /\ orders[req[r].order].status = "cancelled"]_vars
    /\ [](\A r \in Reqs :
            (req[r].kind = "cancel" /\ "stock" \in req[r].wrote) =>
               /\ req[r].order \in ExistingOrders
               /\ orders[req[r].order].status = "cancelled")

\* C16 witness: a cancel of a two-line order failed after restoring the first
\* line; the order is stored as cancelled
C16_Witness ==
    \E r \in Reqs :
        /\ req[r].kind = "cancel" /\ req[r].pc = "done" /\ req[r].cause = "storage"
        /\ "stock" \in req[r].wrote
        /\ req[r].order \in placed
        /\ Len(orderItems[req[r].order]) = 2
        /\ orders[req[r].order].status = "cancelled"
        /\ gems["g1"].stock = InitStock
        /\ gems["g2"].exists

\* C17 (as stated): there is never more than one cart item for a user and a gem,
\* and an add-to-cart that succeeds for a gem already in the user's cart leaves
\* that one item with its quantity raised by the amount added.
C17_OneItemPerPair ==
    /\ [](\A c, d \in cartItems :
            (c.userId = d.userId /\ c.gemId = d.gemId) => c = d)
    /\ [][\A r \in Reqs :
            (/\ req[r].kind = "cartAdd" /\ req[r].pc = "save"
             /\ req'[r].result = "Success"
             /\ CartItemsOf(req[r].user, req[r].gemId) # {}) =>
               \E c \in CartItemsOf(req[r].user, req[r].gemId) :
                  cartItems' = (cartItems \ {c}) \cup
                      {[c EXCEPT !.quantity = c.quantity + req[r].quantity]}]_vars

\* C18: every stored order has an identifier and no two stored orders have the
\* same one.
C18_UniqueOrderId ==
    /\ \A o \in ExistingOrders : orders[o].orderId \in OrderIdStrings
    /\ \A o, p \in ExistingOrders : orders[o].orderId = orders[p].orderId => o = p

\* C18 witness: two orders are stored, under different identifiers
C18_Witness ==
    /\ \E o, p \in ExistingOrders : o # p /\ orders[o].orderId # orders[p].orderId

\* C19 (as stated): of the cancel requests for one order, at most one adds the
\* order's line quantities back to the stock.
C19_RestoreAtMostOnce ==
    \A r, q \in Reqs :
        (/\ req[r].kind = "cancel" /\ req[q].kind = "cancel"
         /\ req[r].order # 0 /\ req[r].order = req[q].order
         /\ "stock" \in req[r].wrote /\ "stock" \in req[q].wrote) => r = q

\* C20 (as stated): a placement's gem lookup answers GemsNotFound exactly when
\* some line's gemId matches no gem of the catalog; two lines naming the same
\* existing gem are not answered GemsNotFound.
C20_GemsNotFoundIffUnresolved ==
    [][\A r \in Reqs :
         LookupEnds(r) =>
            (req'[r].result = "GemsNotFound" <=> UnresolvedLine(req[r].items))]_vars

\* C21 (as stated): an add-to-cart or cart-update that succeeds leaves the cart
\* item it wrote with a quantity no greater than the stock of the gem as that
\* request read it.
C21_CartWithinStock ==
    [][\A r \in Reqs :
         (/\ req[r].kind \in {"cartAdd", "cartUpdate"}
          /\ req[r].pc \in {"save", "update"}
          /\ req'[r].result = "Success") =>
            \A c \in cartItems' \ cartItems : c.quantity <= req[r].gemStock]_vars

\* the gems named by the lines of the order that request r places or cancels
OrderGemsOf(r) ==
    IF req[r].kind = "place" THEN ItemGemIds(req[r].items)
    ELSE IF req[r].order = 0 THEN {}
    ELSE ItemGemIds(orderItems[req[r].order])

\* C22: a step of a placement or a cancel by user U leaves every other user's
\* cart items, orders and order lines as they were, changes the stock of no gem
\* that is not on the order's lines, and changes no gem's price, availability or
\* existence.
C22_OwnRecordsOnly ==
    [][\A r \in Reqs :
         (InFlight(r) /\ req[r].kind \in {"place", "cancel"} /\ StepOf(r)) =>
            /\ {c \in cartItems' : c.userId # req[r].user} =
               {c \in cartItems : c.userId # req[r].user}
            /\ \A o \in OrderIds :
                  (orders'[o] # orders[o] \/ orderItems'[o] # orderItems[o]) =>
                     /\ orders'[o].userId = req[r].user
                     /\ orders[o] = NoOrder \/ orders[o].userId = req[r].user
            /\ \A g \in GemIds :
                  /\ gems'[g].price = gems[g].price
                  /\ gems'[g].availability = gems[g].availability
                  /\ gems'[g].exists = gems[g].exists
                  /\ gems'[g].stock # gems[g].stock => g \in OrderGemsOf(r)]_vars

\* C22 witness: a placement has succeeded, its user's cart is empty and the stock
\* of a gem on its lines is lowered, while another user's order and cart items
\* are stored
C22_Witness ==
    \E r \in Reqs :
        /\ req[r].kind = "place" /\ req[r].pc = "done" /\ req[r].result = "Success"
        /\ {"stock", "cart"} \subseteq req[r].wrote
        /\ \A c \in cartItems : c.userId # req[r].user
        /\ \E c \in cartItems : c.userId # req[r].user
        /\ \E o \in ExistingOrders : orders[o].userId # req[r].user
        /\ \E g \in ItemGemIds(req[r].items) : gems[g].stock < InitStock

====
